---- MODULE Spec2Model ----
(***************************************************************************)
(* Result analysis and report synthesis of the Originality.AI dashboard:   *)
(* script.py (OriginalityAI, format_results) and visualize.py              *)
(* (OriginalityVisualizer, export_to_html, process_text_input,             *)
(* display_analysis).                                                      *)
(*                                                                         *)
(* An analysis document is a Python dict; it is modelled as a TLA+         *)
(* function whose DOMAIN is the set of keys that are present.  Every       *)
(* lookup of the code is by key, so the mapping carries no key order.      *)
(* Lists are sequences.  Floats are fixed-point integers in hundredths     *)
(* (0.82 is 82, 82.0 is 8200); counts, credits and plagiarism scores are   *)
(* plain integers.  Strings are strings; the pictographs that open the     *)
(* three insight headers are not ASCII and are left out of the literals.   *)
(*                                                                         *)
(* A Python call either returns a value, returns None or raises:           *)
(* Ok(v), None, Raise(e).                                                  *)
(***************************************************************************)
EXTENDS Integers, Sequences, FiniteSets, TLC

\* data: the analysis document on display; op: the call last made; result: what
\* it returned; http: the requests sent to the scan API so far, each with the
\* answer it got
VARIABLES data, op, result, http

vars == <<data, op, result, http>>

(* ------------------------------ bounds -------------------------------- *)

MaxBlocks == 2

MaxMatches == 2

MaxSentences == 2

MaxTimeline == 6

MaxScans == 2

(* --------------------------- Python values ---------------------------- *)

Ok(v) == [kind |-> "ok", val |-> v]

None == [kind |-> "none"]

Raise(e) == [kind |-> "raise", exc |-> e]

IsOk(r) == r.kind = "ok"

IsNone(r) == r.kind = "none"

IsRaise(r) == r.kind = "raise"

EmptyDict == <<>>

\* bool(x) of a dict or a list: non-empty
Truthy(x) == DOMAIN x # {}

\* `k in d`
Has(d, k) == k \in DOMAIN d

\* d.get(k, default)
Get(d, k, default) == IF k \in DOMAIN d THEN d[k] ELSE default

\* `d.get(k)` used as a condition, and `k in d and d[k]`
GetTruthy(d, k) == k \in DOMAIN d /\ Truthy(d[k])

Restrict(d, S) == [k \in S |-> d[k]]

\* every dict that carries a subset of the keys of d
SubDicts(d) == {Restrict(d, S) : S \in SUBSET DOMAIN d}

\* d with one of its keys missing, for each key, and d itself, and {}
Partials(d) == {d, EmptyDict} \cup {Restrict(d, DOMAIN d \ {k}) : k \in DOMAIN d}

\* the one-key dict {k: v} for each v in S, or no key at all
Optional(k, S) == {EmptyDict} \cup {k :> v : v \in S}

SeqsUpTo(S, n) == UNION {[1..m -> S] : m \in 0..n}

(* ------------------------- number formatting -------------------------- *)

Digit(n) == ToString(n)

\* str(x) of a float x held in hundredths: 82 -> "0.82", 150 -> "1.5", 100 -> "1.0"
FloatStr(v) ==
    LET whole == v \div 100
        frac == v % 100
    IN  ToString(whole) \o "." \o
        (IF frac % 10 = 0 THEN Digit(frac \div 10)
         ELSE Digit(frac \div 10) \o Digit(frac % 10))

\* f"{x:.1f}" of a float x held in hundredths: 8200 -> "82.0", 6530 -> "65.3"
Format1f(v) ==
    LET tenths == (v + 5) \div 10
    IN  ToString(tenths \div 10) \o "." \o Digit(tenths % 10)

\* f"{x:.2%}" of a float x held in hundredths: 82 -> "82.00%"
Format2Percent(v) == ToString(v) \o ".00%"

\* f"{n / d * 100:.1f}" of the quotient of two integers, d > 0
FormatRatio1f(n, d) ==
    LET tenths == (2 * 1000 * n + d) \div (2 * d)
    IN  ToString(tenths \div 10) \o "." \o Digit(tenths % 10)

(* ------------------------------ strings ------------------------------- *)

RECURSIVE Join(_, _)
\* sep.join(lines)
Join(sep, lines) ==
    IF Len(lines) = 0 THEN ""
    ELSE IF Len(lines) = 1 THEN lines[1]
    ELSE lines[1] \o sep \o Join(sep, Tail(lines))

StartsWith(s, prefix) ==
    Len(s) >= Len(prefix) /\ SubSeq(s, 1, Len(prefix)) = prefix

(* ---------------------------- documents ------------------------------- *)

ErrorValues == {"rate limited", "401 Client Error"}

ClassificationFull == [AI |-> 100, Original |-> 0]

ConfidenceFull == [AI |-> 82, Original |-> 18]

BlockOptions ==
    { [text |-> "ab", result |-> [fake |-> 75, real |-> 25]],
      [text |-> "abc", result |-> [fake |-> 90, real |-> 10]],
      [text |-> "abcd", result |-> [real |-> 50]],
      [text |-> "abcde", result |-> [fake |-> 50, real |-> 50]],
      [text |-> "a"] }

BlockSeqs == SeqsUpTo(BlockOptions, MaxBlocks)

AiFull ==
    [classification |-> ClassificationFull, confidence |-> ConfidenceFull,
     blocks |-> << [text |-> "abc", result |-> [fake |-> 90, real |-> 10]] >>]

\* every shape of the 'ai' section
AiSections ==
    { c @@ f @@ b :
        c \in Optional("classification", SubDicts(ClassificationFull)),
        f \in Optional("confidence", SubDicts(ConfidenceFull)),
        b \in Optional("blocks", BlockSeqs) }

MatchOptions ==
    { [url |-> "a.com", score |-> 40],
      [url |-> "b.org", score |-> 10],
      [url |-> "c.net"],
      [score |-> 25] }

MatchSeqs == SeqsUpTo(MatchOptions, MaxMatches)

PlagiarismFull ==
    [score |-> 55,
     matches |-> << [url |-> "a.com", score |-> 40], [url |-> "b.org", score |-> 10] >>]

\* every shape of the 'plagiarism' section
PlagiarismSections ==
    { s @@ m : s \in Optional("score", {55}), m \in Optional("matches", MatchSeqs) }

TextStatsFull ==
    [uniqueWordCount |-> 120, sentenceCount |-> 6, syllableCount |-> 190,
     averageSpeakingTime |-> 150, averageReadingTime |-> 80,
     totalSyllables |-> 190, averageSyllablesPerWord |-> 160,
     wordsWithThreeSyllables |-> 14, percentWordsWithThreeSyllables |-> 1170]

ScoresFull ==
    [fleschReadingEase |-> 6530, fleschGradeLevel |-> 810, gunningFoxIndex |-> 1020,
     smogIndex |-> 940, colemanLiauIndex |-> 1100]

Plain == [isHard |-> FALSE, isVeryHard |-> FALSE,
          wordsOver13Chars |-> <<>>, wordsOver4Syllables |-> <<>>]

Hard == [isHard |-> TRUE, isVeryHard |-> FALSE,
         wordsOver13Chars |-> <<"internationalization">>, wordsOver4Syllables |-> <<>>]

VeryHard == [isHard |-> FALSE, isVeryHard |-> TRUE,
             wordsOver13Chars |-> <<>>,
             wordsOver4Syllables |-> <<"incomprehensibility", "unintelligibility">>]

Both == [isHard |-> TRUE, isVeryHard |-> TRUE,
         wordsOver13Chars |-> <<"disproportionately", "counterrevolutionary">>,
         wordsOver4Syllables |-> <<"disproportionately">>]

\* well-formed sentence records
SentenceRecords == {Plain, Hard, VeryHard, Both}

\* sentence records, some of them with fields missing
SentenceOptions ==
    {Plain, Both, [isVeryHard |-> TRUE, wordsOver4Syllables |-> <<"unintelligibility">>],
     EmptyDict}

ReadabilityFull ==
    [textStats |-> TextStatsFull, readability |-> ScoresFull,
     sentences |-> <<Hard, Plain, VeryHard>>]

\* every shape of the 'readability' section
ReadabilitySections ==
    { t @@ r @@ s :
        t \in Optional("textStats", Partials(TextStatsFull)),
        r \in Optional("readability", Partials(ScoresFull)),
        s \in Optional("sentences", SeqsUpTo(SentenceOptions, MaxSentences)) }

CreditsFull == [used |-> 3, base_credits |-> 2000, subscription_credits |-> 500]

PropertiesFull ==
    [title |-> "Scan", id |-> 77, public_link |-> "https://app/s/77", privateID |-> 9]

GrammarSections == {EmptyDict, [error |-> "feature not available"]}

\* documents with every combination of absent, empty and populated sections
WholeDocuments ==
    { e @@ a @@ p @@ r @@ g @@ c @@ q :
        e \in Optional("error", ErrorValues),
        a \in Optional("ai", {EmptyDict, AiFull}),
        p \in Optional("plagiarism", {EmptyDict, PlagiarismFull}),
        r \in Optional("readability", {EmptyDict, ReadabilityFull}),
        g \in Optional("grammarSpelling", {[error |-> "feature not available"]}),
        c \in Optional("credits", {CreditsFull}),
        q \in Optional("properties", {PropertiesFull}) }

\* documents with one section, in every shape of that section
SectionDocuments ==
    {"ai" :> a : a \in AiSections}
    \cup {"plagiarism" :> p : p \in PlagiarismSections}
    \cup {"readability" :> r : r \in ReadabilitySections}
    \cup {"credits" :> c : c \in SubDicts(CreditsFull)}
    \cup {"grammarSpelling" :> g : g \in GrammarSections}
    \cup {"properties" :> q : q \in Partials(PropertiesFull)}

Documents == WholeDocuments \cup SectionDocuments

\* documents whose readability section holds well-formed sentence records
SentenceDocuments ==
    { [readability |-> [textStats |-> TextStatsFull, readability |-> ScoresFull,
                        sentences |-> s]] :
        s \in SeqsUpTo(SentenceRecords, MaxTimeline) }

(* --------------------------- format_results --------------------------- *)

NA == "N/A"

\* f"{d.get(k, 'N/A')}" of a float field
GetFloatStr(d, k) == IF Has(d, k) THEN FloatStr(d[k]) ELSE NA

\* f"{d.get(k, 'N/A')}" of an integer field
GetIntStr(d, k) == IF Has(d, k) THEN ToString(d[k]) ELSE NA

\* f"{d.get(k, 'N/A')}" of a string field
GetStr(d, k) == IF Has(d, k) THEN d[k] ELSE NA

\* f"{d.get(k, 'N/A'):.2%}": the format code '%' is invalid for the str 'N/A'
GetPercent(d, k) == IF Has(d, k) THEN Ok(Format2Percent(d[k])) ELSE Raise("ValueError")

FormatAi(doc) ==
    IF ~GetTruthy(doc, "ai") THEN Ok(<<>>)
    ELSE
      LET ai_data == doc["ai"]
          classification ==
            IF Has(ai_data, "classification")
            THEN << "\nAI Detection Results:",
                    "AI Probability: " \o GetFloatStr(ai_data["classification"], "AI"),
                    "Original Probability: "
                        \o GetFloatStr(ai_data["classification"], "Original") >>
            ELSE <<>>
      IN  IF ~Has(ai_data, "confidence") THEN Ok(classification)
          ELSE
            LET ai == GetPercent(ai_data["confidence"], "AI")
                original == GetPercent(ai_data["confidence"], "Original")
            IN  IF IsRaise(ai) THEN ai
                ELSE IF IsRaise(original) THEN original
                ELSE Ok(classification \o
                        << "\nConfidence Scores:",
                           "AI Confidence: " \o ai.val,
                           "Original Confidence: " \o original.val >>)

MatchLine(match) ==
    "- " \o GetStr(match, "url") \o ": " \o GetIntStr(match, "score") \o "% match"

FormatPlagiarism(doc) ==
    IF ~GetTruthy(doc, "plagiarism") THEN <<>>
    ELSE
      LET plag_data == doc["plagiarism"]
      IN  << "\nPlagiarism Results:" >>
          \o (IF Has(plag_data, "score")
              THEN << "Plagiarism Score: " \o ToString(plag_data["score"]) \o "%" >>
              ELSE <<>>)
          \o (IF GetTruthy(plag_data, "matches")
              THEN << "\nPlagiarism Matches:" >>
                   \o [i \in 1..Len(plag_data["matches"]) |->
                          MatchLine(plag_data["matches"][i])]
              ELSE <<>>)

FormatReadability(doc) ==
    IF ~GetTruthy(doc, "readability") THEN <<>>
    ELSE
      LET read_data == doc["readability"]
      IN  << "\nReadability Metrics:" >>
          \o (IF Has(read_data, "textStats")
              THEN LET stats == read_data["textStats"]
                   IN << "Word Count: " \o GetIntStr(stats, "uniqueWordCount"),
                         "Sentence Count: " \o GetIntStr(stats, "sentenceCount"),
                         "Average Speaking Time: "
                             \o GetFloatStr(stats, "averageSpeakingTime") \o " minutes",
                         "Average Reading Time: "
                             \o GetFloatStr(stats, "averageReadingTime") \o " minutes" >>
              ELSE <<>>)
          \o (IF Has(read_data, "readability")
              THEN LET scores == read_data["readability"]
                   IN << "\nReadability Scores:",
                         "Flesch Reading Ease: " \o GetFloatStr(scores, "fleschReadingEase"),
                         "Flesch-Kincaid Grade Level: "
                             \o GetFloatStr(scores, "fleschGradeLevel") >>
              ELSE <<>>)

FormatGrammar(doc) ==
    IF GetTruthy(doc, "grammarSpelling") /\ Has(doc["grammarSpelling"], "error")
    THEN << "\nGrammar & Spelling: " \o doc["grammarSpelling"]["error"] >>
    ELSE <<>>

FormatCredits(doc) ==
    IF ~GetTruthy(doc, "credits") THEN <<>>
    ELSE
      LET credits == doc["credits"]
      IN  << "\nCredits Information:",
             "Used Credits: " \o GetIntStr(credits, "used"),
             "Base Credits: " \o GetIntStr(credits, "base_credits"),
             "Subscription Credits: " \o GetIntStr(credits, "subscription_credits") >>

\* the lines of the sections joined with no fallback for an empty output
FormatSections_NoFallback(doc) ==
    LET ai == FormatAi(doc)
    IN  IF IsRaise(ai) THEN ai
        ELSE Ok(Join("\n", ai.val \o FormatPlagiarism(doc) \o FormatReadability(doc)
                           \o FormatGrammar(doc) \o FormatCredits(doc)))

\* format_results past its 'error' test: the lines of the sections, joined
FormatSections(doc) ==
    LET ai == FormatAi(doc)
    IN  IF IsRaise(ai) THEN ai
        ELSE
          LET output == ai.val \o FormatPlagiarism(doc) \o FormatReadability(doc)
                        \o FormatGrammar(doc) \o FormatCredits(doc)
          IN  Ok(IF Len(output) > 0 THEN Join("\n", output) ELSE "No results available")

\* format_results with the 'error' test made after the sections, as the fallback
\* of an empty output
format_results_ErrorLast(doc) ==
    LET sections == FormatSections(doc)
    IN  IF Has(doc, "error") /\ sections = Ok("No results available")
        THEN Ok("Error: " \o doc["error"])
        ELSE sections

format_results(doc) ==
    IF Has(doc, "error") THEN Ok("Error: " \o doc["error"])
    ELSE FormatSections(doc)

(* ------------------------ OriginalityVisualizer ------------------------ *)

\* a float held in hundredths, times 100
Times100(v) == v * 100

plot_ai_detection_results(doc) ==
    IF ~GetTruthy(doc, "ai") THEN None
    ELSE
      LET ai_data == doc["ai"]
      IN  IF ~Has(ai_data, "confidence") THEN Raise("KeyError")
          ELSE Ok([type |-> "Pie", title |-> "AI Detection Confidence Scores",
                   labels |-> <<"AI Generated", "Original">>,
                   values |-> << Times100(Get(ai_data["confidence"], "AI", 0)),
                                 Times100(Get(ai_data["confidence"], "Original", 0)) >>])

plot_readability_metrics(doc) ==
    IF ~GetTruthy(doc, "readability") THEN None
    ELSE IF ~Has(doc["readability"], "readability") THEN Raise("KeyError")
    ELSE
      LET metrics == doc["readability"]["readability"]
      IN  Ok([type |-> "Scatterpolar", title |-> "Readability Metrics",
              theta |-> <<"Flesch Reading Ease", "Flesch-Kincaid Grade",
                          "Gunning Fox Index", "SMOG Index", "Coleman-Liau">>,
              r |-> << Get(metrics, "fleschReadingEase", 0),
                       Get(metrics, "fleschGradeLevel", 0),
                       Get(metrics, "gunningFoxIndex", 0),
                       Get(metrics, "smogIndex", 0),
                       Get(metrics, "colemanLiauIndex", 0) >>])

plot_text_statistics(doc) ==
    IF ~GetTruthy(doc, "readability") THEN None
    ELSE IF ~Has(doc["readability"], "textStats") THEN Raise("KeyError")
    ELSE
      LET stats == doc["readability"]["textStats"]
      IN  Ok([type |-> "Bar", title |-> "Text Statistics",
              x |-> <<"Word Count", "Sentence Count", "Syllable Count",
                      "Speaking Time (min)", "Reading Time (min)">>,
              y |-> << Get(stats, "uniqueWordCount", 0),
                       Get(stats, "sentenceCount", 0),
                       Get(stats, "syllableCount", 0),
                       Get(stats, "averageSpeakingTime", 0),
                       Get(stats, "averageReadingTime", 0) >>])

\* sum(1 for s in sentences if s.get(k, False)) for a boolean field k
CountFlag(sentences, k) ==
    Cardinality({i \in 1..Len(sentences) : Get(sentences[i], k, FALSE)})

\* sum(1 for s in sentences if s.get(k, [])) for a list field k
CountNonEmpty(sentences, k) ==
    Cardinality({i \in 1..Len(sentences) : Truthy(Get(sentences[i], k, <<>>))})

\* the analysis dict with a sentence counted as very hard only when it is not
\* hard: exclusive buckets
SentenceAnalysis_Exclusive(sentences) ==
    [total_sentences |-> Len(sentences),
     hard_sentences |-> CountFlag(sentences, "isHard"),
     very_hard_sentences |->
         Cardinality({i \in 1..Len(sentences) :
                         /\ Get(sentences[i], "isVeryHard", FALSE)
                         /\ ~Get(sentences[i], "isHard", FALSE)}),
     sentences_with_long_words |-> CountNonEmpty(sentences, "wordsOver13Chars"),
     sentences_with_complex_words |-> CountNonEmpty(sentences, "wordsOver4Syllables")]

\* the analysis dict of a list of sentence records
SentenceAnalysis(sentences) ==
    [total_sentences |-> Len(sentences),
     hard_sentences |-> CountFlag(sentences, "isHard"),
     very_hard_sentences |-> CountFlag(sentences, "isVeryHard"),
     sentences_with_long_words |-> CountNonEmpty(sentences, "wordsOver13Chars"),
     sentences_with_complex_words |-> CountNonEmpty(sentences, "wordsOver4Syllables")]

\* analyze_sentence_complexity without its guard: a missing section reads as {}
analyze_sentence_complexity_NoGuard(doc) ==
    SentenceAnalysis(Get(Get(doc, "readability", EmptyDict), "sentences", <<>>))

analyze_sentence_complexity(doc) ==
    IF ~GetTruthy(doc, "readability") THEN EmptyDict
    ELSE SentenceAnalysis(Get(doc["readability"], "sentences", <<>>))

\* plot_sentence_complexity with the 'Simple' value clamped at 0
plot_sentence_complexity_Clamped(doc) ==
    LET analysis == analyze_sentence_complexity(doc)
        simple == analysis.total_sentences - analysis.hard_sentences
                  - analysis.very_hard_sentences
    IN  IF ~Truthy(analysis) THEN None
        ELSE Ok([type |-> "Bar", title |-> "Sentence Complexity Distribution",
                 x |-> <<"Simple", "Hard", "Very Hard">>,
                 y |-> << IF simple < 0 THEN 0 ELSE simple,
                          analysis.hard_sentences,
                          analysis.very_hard_sentences >>])

plot_sentence_complexity(doc) ==
    LET analysis == analyze_sentence_complexity(doc)
    IN  IF ~Truthy(analysis) THEN None
        ELSE Ok([type |-> "Bar", title |-> "Sentence Complexity Distribution",
                 x |-> <<"Simple", "Hard", "Very Hard">>,
                 y |-> << analysis.total_sentences - analysis.hard_sentences
                              - analysis.very_hard_sentences,
                          analysis.hard_sentences,
                          analysis.very_hard_sentences >>])

\* df[column] of DataFrame(records), then a per-row use of the cell as a dict or a
\* list: KeyError when no record has the column; a record without it holds NaN,
\* a float, on which the use fails with `error`
ColumnError(records, column, error) ==
    IF \A i \in 1..Len(records) : ~Has(records[i], column) THEN Raise("KeyError")
    ELSE IF \E i \in 1..Len(records) : ~Has(records[i], column) THEN Raise(error)
    ELSE None

\* analyze_ai_blocks with the rows in reverse order of the blocks
analyze_ai_blocks_Reversed(doc) ==
    IF ~GetTruthy(doc, "ai") \/ ~GetTruthy(doc["ai"], "blocks") THEN Ok(<<>>)
    ELSE
      LET blocks == doc["ai"]["blocks"]
          n == Len(blocks)
          bad == ColumnError(blocks, "result", "AttributeError")
      IN  IF IsRaise(bad) THEN bad
          ELSE Ok([i \in 1..n |->
                     [text |-> blocks[n + 1 - i].text,
                      ai_score |-> Times100(Get(blocks[n + 1 - i].result, "fake", 0)),
                      human_score |-> Times100(Get(blocks[n + 1 - i].result, "real", 0))]])

analyze_ai_blocks(doc) ==
    IF ~GetTruthy(doc, "ai") \/ ~GetTruthy(doc["ai"], "blocks") THEN Ok(<<>>)
    ELSE
      LET blocks == doc["ai"]["blocks"]
          bad == ColumnError(blocks, "result", "AttributeError")
      IN  IF IsRaise(bad) THEN bad
          ELSE Ok([i \in 1..Len(blocks) |->
                     [text |-> blocks[i].text,
                      ai_score |-> Times100(Get(blocks[i].result, "fake", 0)),
                      human_score |-> Times100(Get(blocks[i].result, "real", 0))]])

\* the metrics dict with the matches numbered by enumerate(matches), from 0
PlagiarismMetrics_FromZero(plag_data) ==
    LET matches == IF GetTruthy(plag_data, "matches") THEN plag_data["matches"] ELSE <<>>
    IN  [keys |-> <<"Overall Score">>
                  \o [i \in 1..Len(matches) |-> "Match " \o ToString(i - 1)],
         values |-> << Get(plag_data, "score", 0) >>
                    \o [i \in 1..Len(matches) |-> Get(matches[i], "score", 0)]]

\* the metrics dict, in insertion order: list(metrics.keys()), list(metrics.values())
PlagiarismMetrics(plag_data) ==
    LET matches == IF GetTruthy(plag_data, "matches") THEN plag_data["matches"] ELSE <<>>
    IN  [keys |-> <<"Overall Score">>
                  \o [i \in 1..Len(matches) |-> "Match " \o ToString(i)],
         values |-> << Get(plag_data, "score", 0) >>
                    \o [i \in 1..Len(matches) |-> Get(matches[i], "score", 0)]]

plot_plagiarism_metrics(doc) ==
    IF ~GetTruthy(doc, "plagiarism") THEN None
    ELSE
      LET metrics == PlagiarismMetrics(doc["plagiarism"])
      IN  Ok([type |-> "Bar", title |-> "Plagiarism Analysis",
              x |-> metrics.keys, y |-> metrics.values,
              text |-> [i \in 1..Len(metrics.values) |->
                           ToString(metrics.values[i]) \o "%"]])

\* the float-valued fields of textStats
FloatStats == {"averageSyllablesPerWord", "percentWordsWithThreeSyllables"}

\* f'{v:.1f}' if isinstance(v, float) else v, for v = text_stats.get(k, 0)
DetailText(text_stats, k) ==
    IF Has(text_stats, k) /\ k \in FloatStats THEN Format1f(text_stats[k])
    ELSE ToString(Get(text_stats, k, 0))

DetailKeys ==
    <<"uniqueWordCount", "totalSyllables", "averageSyllablesPerWord",
      "wordsWithThreeSyllables", "percentWordsWithThreeSyllables">>

plot_readability_details(doc) ==
    IF ~GetTruthy(doc, "readability") THEN None
    ELSE IF ~Has(doc["readability"], "textStats") THEN Raise("KeyError")
    ELSE
      LET text_stats == doc["readability"]["textStats"]
      IN  Ok([type |-> "Bar", title |-> "Detailed Readability Metrics",
              x |-> <<"Unique Words", "Total Syllables", "Avg Syllables/Word",
                      "Words with 3+ Syllables", "% Complex Words">>,
              y |-> [i \in 1..Len(DetailKeys) |-> Get(text_stats, DetailKeys[i], 0)],
              text |-> [i \in 1..Len(DetailKeys) |-> DetailText(text_stats, DetailKeys[i])]])

\* np.arange(n)
Arange(n) == [i \in 1..n |-> i - 1]

plot_sentence_heatmap(doc) ==
    IF ~GetTruthy(doc, "ai") \/ ~GetTruthy(doc["ai"], "blocks") THEN None
    ELSE
      LET blocks == doc["ai"]["blocks"]
          bad == ColumnError(blocks, "result", "AttributeError")
      IN  IF IsRaise(bad) THEN bad
          ELSE Ok([type |-> "Heatmap", title |-> "Sentence Analysis Heatmap",
                   x |-> Arange(Len(blocks)),
                   y |-> <<"Length", "AI Probability">>,
                   z |-> << [i \in 1..Len(blocks) |-> Len(blocks[i].text)],
                            [i \in 1..Len(blocks) |->
                                Times100(Get(blocks[i].result, "fake", 0))] >>])

(* ----------------------- plot_readability_timeline --------------------- *)

window_size == 5

\* a pandas cell: <<v>> holds the number v, <<>> is NaN
NaN == <<>>

Max(a, b) == IF a >= b THEN a ELSE b

RECURSIVE SumCells(_, _, _)
\* the sum of the cells lo..hi of a series, NaN cells skipped
SumCells(values, lo, hi) ==
    IF lo > hi THEN 0
    ELSE (IF values[lo] = NaN THEN 0 ELSE values[lo][1]) + SumCells(values, lo + 1, hi)

\* a moving average over the full windows only: no point for the first
\* window - 1 positions
Rolling_FullWindows(values, window, min_periods) ==
    [i \in 1..Max(0, Len(values) - window + 1) |->
        [sum |-> SumCells(values, i, i + window - 1), count |-> window]]

\* values.rolling(window=window, min_periods=min_periods).mean(): the point at i is
\* the mean sum/count of the cells of the window that are not NaN, and NaN when
\* fewer than min_periods of them are
Rolling(values, window, min_periods) ==
    [i \in 1..Len(values) |->
        LET lo == Max(1, i - window + 1)
            count == Cardinality({j \in lo..i : values[j] # NaN})
        IN  IF count < min_periods THEN [nan |-> TRUE]
            ELSE [sum |-> SumCells(values, lo, i), count |-> count]]

\* int(True) = 1, int(False) = 0
BoolInt(b) == IF b THEN 1 ELSE 0

\* df[column].str.len(): NaN for a record without the column
StrLen(records, column) ==
    [i \in 1..Len(records) |->
        IF Has(records[i], column) THEN << Len(records[i][column]) >> ELSE NaN]

\* the series with min_periods = window_size: undefined until a window is full
Trace_FullWindowOnly(name, values) ==
    LET rolling_avg == Rolling(values, window_size, window_size)
    IN  [name |-> name, x |-> Arange(Len(rolling_avg)), y |-> rolling_avg]

Trace(name, values) ==
    LET rolling_avg == Rolling(values, window_size, 1)
    IN  [name |-> name, x |-> Arange(Len(rolling_avg)), y |-> rolling_avg]

plot_readability_timeline(doc) ==
    IF ~GetTruthy(doc, "readability") \/ ~GetTruthy(doc["readability"], "sentences")
    THEN None
    ELSE
      LET sentences == doc["readability"]["sentences"]
          n == Len(sentences)
          hard == ColumnError(sentences, "isHard", "ValueError")
          very == ColumnError(sentences, "isVeryHard", "ValueError")
          anyHas(column) == \E i \in 1..n : Has(sentences[i], column)
      IN  IF IsRaise(hard) THEN hard
          ELSE IF IsRaise(very) THEN very
          ELSE IF ~anyHas("wordsOver13Chars") \/ ~anyHas("wordsOver4Syllables")
          THEN Raise("KeyError")
          ELSE
            Ok([type |-> "Scatter",
                title |-> "Readability Timeline (Rolling Average: "
                          \o ToString(window_size) \o " sentences)",
                traces |->
                  << Trace("Complexity",
                           [i \in 1..n |-> << BoolInt(sentences[i].isHard)
                                              + BoolInt(sentences[i].isVeryHard) >>]),
                     Trace("Long Words", StrLen(sentences, "wordsOver13Chars")),
                     Trace("Complex Words", StrLen(sentences, "wordsOver4Syllables")) >>])

(* ---------------------- generate_detailed_insights --------------------- *)

\* 0.75, in hundredths
HighAiThreshold == 75

AiHeader == "AI Detection:"

ReadabilityHeader == "\nReadability Analysis:"

PlagiarismHeader == "\nPlagiarism Check:"

AiInsights(doc) ==
    IF ~GetTruthy(doc, "ai") THEN Ok(<<>>)
    ELSE IF ~Has(doc["ai"], "confidence") THEN Raise("KeyError")
    ELSE
      LET ai_conf == doc["ai"]["confidence"]
          ai_prob == Times100(Get(ai_conf, "AI", 0))
          blocks == Get(doc["ai"], "blocks", <<>>)
          high_ai_blocks ==
            Cardinality({i \in 1..Len(blocks) :
                            Get(blocks[i].result, "fake", 0) > HighAiThreshold})
          head == << AiHeader,
                     "  - Overall AI Probability: " \o Format1f(ai_prob) \o "%" >>
      IN  IF ~Truthy(blocks) THEN Ok(head)
          ELSE IF \E i \in 1..Len(blocks) : ~Has(blocks[i], "result")
          THEN Raise("KeyError")
          ELSE Ok(head \o << "  - " \o ToString(high_ai_blocks)
                             \o " text blocks show strong AI characteristics" >>)

ReadabilityInsights(doc) ==
    IF ~GetTruthy(doc, "readability") THEN Ok(<<>>)
    ELSE IF ~Has(doc["readability"], "readability") \/ ~Has(doc["readability"], "textStats")
    THEN Raise("KeyError")
    ELSE
      LET metrics == doc["readability"]["readability"]
          stats == doc["readability"]["textStats"]
          complexity == analyze_sentence_complexity(doc)
          head == << ReadabilityHeader,
                     "  - Flesch Reading Ease: "
                         \o Format1f(Get(metrics, "fleschReadingEase", 0)),
                     "  - Average Reading Time: "
                         \o Format1f(Get(stats, "averageReadingTime", 0)) \o " minutes" >>
      IN  IF Truthy(complexity) /\ complexity.total_sentences > 0
          THEN Ok(head \o << "  - "
                             \o FormatRatio1f(complexity.hard_sentences
                                                + complexity.very_hard_sentences,
                                              complexity.total_sentences)
                             \o "% of sentences are complex" >>)
          ELSE Ok(head)

PlagiarismInsights(doc) ==
    IF ~GetTruthy(doc, "plagiarism") THEN <<>>
    ELSE
      LET plag_data == doc["plagiarism"]
      IN  << PlagiarismHeader,
             "  - Overall Score: " \o ToString(Get(plag_data, "score", 0)) \o "%" >>
          \o (IF GetTruthy(plag_data, "matches")
              THEN << "  - Found " \o ToString(Len(plag_data["matches"]))
                      \o " potential matches" >>
              ELSE <<>>)

\* generate_detailed_insights with the plagiarism block before the readability one
generate_detailed_insights_PlagiarismFirst(doc) ==
    LET ai == AiInsights(doc)
        readability == ReadabilityInsights(doc)
    IN  IF IsRaise(ai) THEN ai
        ELSE IF IsRaise(readability) THEN readability
        ELSE Ok(ai.val \o PlagiarismInsights(doc) \o readability.val)

generate_detailed_insights(doc) ==
    LET ai == AiInsights(doc)
        readability == ReadabilityInsights(doc)
    IN  IF IsRaise(ai) THEN ai
        ELSE IF IsRaise(readability) THEN readability
        ELSE Ok(ai.val \o readability.val \o PlagiarismInsights(doc))

(* ---------------------------- export_to_html --------------------------- *)

\* {{ d.k }} of the template: the value, or nothing when the key is missing
Render(d, k, isInt) ==
    IF ~Has(d, k) THEN "" ELSE IF isInt THEN ToString(d[k]) ELSE d[k]

\* fig.to_html(full_html=False, include_plotlyjs=False): the fragment drawing fig
to_html(fig) == [div |-> fig]

RECURSIVE NotNone(_)
\* [fig for fig in figs if fig is not None]
NotNone(figs) ==
    IF Len(figs) = 0 THEN <<>>
    ELSE (IF IsNone(Head(figs)) THEN <<>> ELSE << Head(figs).val >>) \o NotNone(Tail(figs))

\* the rendered template, one record per <div class="section">, top to bottom
export_to_html(figs, insights, doc) ==
    LET shown == NotNone(figs)
        plot_htmls == [i \in 1..Len(shown) |-> to_html(shown[i])]
        properties == Get(doc, "properties", EmptyDict)
        credits == Get(doc, "credits", EmptyDict)
    IN  << [section |-> "Document Properties",
            metrics |-> IF Truthy(properties)
                        THEN << "Title: " \o Render(properties, "title", FALSE),
                                "ID: " \o Render(properties, "id", TRUE),
                                "Public Link: " \o Render(properties, "public_link", FALSE) >>
                        ELSE <<>>],
           [section |-> "Key Insights", insights |-> insights] >>
        \o [i \in 1..Len(plot_htmls) |-> [section |-> "plot", plot |-> plot_htmls[i]]]
        \o << [section |-> "Credits Information",
               metrics |-> IF Truthy(credits)
                           THEN << "Used Credits: " \o Render(credits, "used", TRUE),
                                   "Base Credits: " \o Render(credits, "base_credits", TRUE),
                                   "Subscription Credits: "
                                       \o Render(credits, "subscription_credits", TRUE) >>
                           ELSE <<>>] >>

(* --------------------------- display_analysis -------------------------- *)

\* the eight figures with the heatmap moved to the front of the list
Figures_HeatmapFirst(doc) ==
    << plot_sentence_heatmap(doc),
       plot_ai_detection_results(doc),
       plot_readability_metrics(doc),
       plot_text_statistics(doc),
       plot_sentence_complexity(doc),
       plot_plagiarism_metrics(doc),
       plot_readability_details(doc),
       plot_readability_timeline(doc) >>

\* the eight figures of the report, in the order display_analysis lists them
Figures(doc) ==
    << plot_ai_detection_results(doc),
       plot_readability_metrics(doc),
       plot_text_statistics(doc),
       plot_sentence_complexity(doc),
       plot_plagiarism_metrics(doc),
       plot_readability_details(doc),
       plot_readability_timeline(doc),
       plot_sentence_heatmap(doc) >>

\* the first exception among a sequence of call results, or None
FirstRaise(results) ==
    IF \E i \in 1..Len(results) : IsRaise(results[i])
    THEN results[CHOOSE i \in 1..Len(results) :
                    /\ IsRaise(results[i])
                    /\ \A j \in 1..(i - 1) : ~IsRaise(results[j])]
    ELSE None

\* the "Generate HTML Report" branch: the html_content it builds
GenerateReport(doc) ==
    LET figures == Figures(doc)
        insights == generate_detailed_insights(doc)
        bad == FirstRaise(figures \o <<insights>>)
    IN  IF IsRaise(bad) THEN bad
        ELSE Ok(export_to_html(figures, insights.val, doc))

\* the calls display_analysis makes to draw the page, in the order it makes them
PageCalls(doc) ==
    << plot_ai_detection_results(doc),
       plot_readability_metrics(doc),
       plot_text_statistics(doc),
       plot_sentence_complexity(doc),
       analyze_ai_blocks(doc),
       plot_plagiarism_metrics(doc),
       plot_readability_details(doc),
       plot_readability_timeline(doc),
       plot_sentence_heatmap(doc) >>

\* st.error / st.warning / st.success under the AI probability metric
RiskLevel(ai_prob) ==
    IF ai_prob > 7500 THEN "error: High Risk of AI Generation"
    ELSE IF ai_prob > 5000 THEN "warning: Moderate Risk of AI Generation"
    ELSE "success: Low Risk of AI Generation"

\* one run of display_analysis: the exception it lets through, or the AI metric
\* and risk level it shows and the html_content of the report (None when the
\* button was not pressed)
display_analysis(doc, button) ==
    LET bad == FirstRaise(PageCalls(doc))
        report == IF button THEN GenerateReport(doc) ELSE None
        ai_prob == Times100(Get(doc["ai"]["confidence"], "AI", 0))
    IN  IF IsRaise(bad) THEN bad
        ELSE IF IsRaise(report) THEN report
        ELSE Ok([metric |-> IF GetTruthy(doc, "ai")
                            THEN << "AI Probability: " \o Format1f(ai_prob) \o "%",
                                    RiskLevel(ai_prob) >>
                            ELSE <<>>,
                 html_content |-> report])

(* ------------------------------ scan client --------------------------- *)

Texts == {"a", "abc"}

\* what requests.post comes back with: a connection-level exception, or a
\* response with a status code and a body that is JSON or not
NetworkErrors == {"Connection refused", "Read timed out"}

ErrorStatuses == {401, 429, 500}

\* bodies of a 2xx answer: documents with or without 'ai' and 'error', one with
\* an 'ai' section that lacks 'confidence', and a body that is not JSON
ScanBodies ==
    {[json |-> d] : d \in {w \in WholeDocuments : DOMAIN w \subseteq {"ai", "error"}}}
    \cup {[json |-> "ai" :> [classification |-> ClassificationFull]],
          [text |-> "<html>"]}

Responses ==
    {[kind |-> "exception", message |-> m] : m \in NetworkErrors}
    \cup {[kind |-> "response", status |-> s, body |-> [text |-> ""]] : s \in ErrorStatuses}
    \cup {[kind |-> "response", status |-> 200, body |-> b] : b \in ScanBodies}

\* response.raise_for_status(): HTTPError for a 4xx or 5xx status
raise_for_status(response) ==
    IF 400 <= response.status /\ response.status < 500
    THEN Raise(ToString(response.status) \o " Client Error")
    ELSE IF 500 <= response.status /\ response.status < 600
    THEN Raise(ToString(response.status) \o " Server Error")
    ELSE None

\* _make_request with no except clause: request exceptions reach the caller
_make_request_Uncaught(method, endpoint, payload, response, json_error_caught) ==
    IF response.kind = "exception" THEN Raise("ConnectionError")
    ELSE IF IsRaise(raise_for_status(response)) THEN Raise("HTTPError")
    ELSE IF Has(response.body, "json") THEN Ok(response.body.json)
    ELSE Raise("JSONDecodeError")

\* OriginalityAI._make_request, given the answer of the API to the request.  A 2xx
\* body that is not JSON makes response.json() raise JSONDecodeError, which is a
\* RequestException in some versions of requests and a plain ValueError in
\* others: json_error_caught says which.
_make_request(method, endpoint, payload, response, json_error_caught) ==
    IF response.kind = "exception" THEN Ok([error |-> response.message])
    ELSE IF IsRaise(raise_for_status(response))
    THEN Ok([error |-> raise_for_status(response).exc])
    ELSE IF Has(response.body, "json") THEN Ok(response.body.json)
    ELSE IF json_error_caught THEN Ok([error |-> "Expecting value"])
    ELSE Raise("JSONDecodeError")

\* OriginalityAI.new_scan with the default scan_type, title and excluded_url
new_scan(text, response, json_error_caught) ==
    _make_request("POST", "scan",
                 [content |-> text, title |-> "Scan", storeScan |-> TRUE,
                  aiModel |-> "lite", scan_ai |-> TRUE, scan_plag |-> TRUE,
                  scan_readability |-> TRUE, scan_grammar_spelling |-> TRUE],
                 response, json_error_caught)

\* process_text_input: what it returns or raises, and the requests it sent
process_text_input(text, api_key, response, json_error_caught) ==
    IF ~api_key THEN [returned |-> Raise("Exception"), sent |-> <<>>]
    ELSE
      LET scanned == new_scan(text, response, json_error_caught)
          sent == << [method |-> "POST", endpoint |-> "scan", content |-> text,
                      response |-> response] >>
      IN  IF IsRaise(scanned) THEN [returned |-> Raise("Exception"), sent |-> sent]
          ELSE IF IsRaise(format_results(scanned.val))
          THEN [returned |-> Raise("Exception"), sent |-> sent]
          ELSE [returned |-> Ok(scanned.val), sent |-> sent]

(* ------------------------------ actions ------------------------------- *)

Init ==
    /\ data \in Documents
    /\ op = "none"
    /\ result = None
    /\ http = <<>>

InitSentences ==
    /\ data \in SentenceDocuments
    /\ op = "none"
    /\ result = None
    /\ http = <<>>

\* op is the call last made on the document and result what it returned; the
\* document is immutable after receipt

FormatResults ==
    /\ op' = "format_results"
    /\ result' = format_results(data)
    /\ UNCHANGED <<data, http>>

PlotAiDetectionResults ==
    /\ op' = "plot_ai_detection_results"
    /\ result' = plot_ai_detection_results(data)
    /\ UNCHANGED <<data, http>>

PlotReadabilityMetrics ==
    /\ op' = "plot_readability_metrics"
    /\ result' = plot_readability_metrics(data)
    /\ UNCHANGED <<data, http>>

PlotTextStatistics ==
    /\ op' = "plot_text_statistics"
    /\ result' = plot_text_statistics(data)
    /\ UNCHANGED <<data, http>>

PlotSentenceComplexity ==
    /\ op' = "plot_sentence_complexity"
    /\ result' = plot_sentence_complexity(data)
    /\ UNCHANGED <<data, http>>

AnalyzeSentenceComplexity ==
    /\ op' = "analyze_sentence_complexity"
    /\ result' = Ok(analyze_sentence_complexity(data))
    /\ UNCHANGED <<data, http>>

AnalyzeAiBlocks ==
    /\ op' = "analyze_ai_blocks"
    /\ result' = analyze_ai_blocks(data)
    /\ UNCHANGED <<data, http>>

PlotPlagiarismMetrics ==
    /\ op' = "plot_plagiarism_metrics"
    /\ result' = plot_plagiarism_metrics(data)
    /\ UNCHANGED <<data, http>>

PlotReadabilityDetails ==
    /\ op' = "plot_readability_details"
    /\ result' = plot_readability_details(data)
    /\ UNCHANGED <<data, http>>

PlotSentenceHeatmap ==
    /\ op' = "plot_sentence_heatmap"
    /\ result' = plot_sentence_heatmap(data)
    /\ UNCHANGED <<data, http>>

PlotReadabilityTimeline ==
    /\ op' = "plot_readability_timeline"
    /\ result' = plot_readability_timeline(data)
    /\ UNCHANGED <<data, http>>

GenerateDetailedInsights ==
    /\ op' = "generate_detailed_insights"
    /\ result' = generate_detailed_insights(data)
    /\ UNCHANGED <<data, http>>

\* one run of display_analysis, without and with the "Generate HTML Report" button
DisplayAnalysis ==
    /\ op' = "display_analysis"
    /\ result' = display_analysis(data, FALSE)
    /\ UNCHANGED <<data, http>>

GenerateHTMLReport ==
    /\ op' = "generate_html_report"
    /\ result' = display_analysis(data, TRUE)
    /\ UNCHANGED <<data, http>>

InitScan ==
    /\ data = EmptyDict
    /\ op = "none"
    /\ result = None
    /\ http = <<>>

\* the "Enter Text" and "Upload Text File" tabs of main: the text is scanned and
\* the document that comes back is the one put on display
ProcessTextInput ==
    \E text \in Texts, api_key \in BOOLEAN, response \in Responses,
       json_error_caught \in BOOLEAN :
        LET call == process_text_input(text, api_key, response, json_error_caught)
        IN  /\ Len(http) < MaxScans
            /\ op' = "process_text_input"
            /\ result' = call.returned
            /\ http' = http \o call.sent
            /\ data' = IF IsOk(call.returned) THEN call.returned.val ELSE data

Next ==
    \/ FormatResults
    \/ PlotAiDetectionResults
    \/ PlotReadabilityMetrics
    \/ PlotTextStatistics
    \/ PlotSentenceComplexity
    \/ AnalyzeSentenceComplexity
    \/ AnalyzeAiBlocks
    \/ PlotPlagiarismMetrics
    \/ PlotReadabilityDetails
    \/ PlotSentenceHeatmap
    \/ PlotReadabilityTimeline
    \/ GenerateDetailedInsights
    \/ DisplayAnalysis
    \/ GenerateHTMLReport

NextSentences ==
    \/ AnalyzeSentenceComplexity
    \/ PlotSentenceComplexity
    \/ PlotReadabilityTimeline
    \/ GenerateDetailedInsights

Spec == Init /\ [][Next]_vars

SpecSentences == InitSentences /\ [][NextSentences]_vars

NextScan ==
    \/ ProcessTextInput
    \/ FormatResults

SpecScan == InitScan /\ [][NextScan]_vars

(* ------------------------- checked properties -------------------------- *)

Contains(s, part) ==
    \E i \in 1..(Len(s) - Len(part) + 1) : SubSeq(s, i, i + Len(part) - 1) = part

\* the section an insight line belongs to
IsAiLine(line) ==
    \/ line = AiHeader
    \/ StartsWith(line, "  - Overall AI Probability: ")
    \/ Contains(line, " text blocks show strong AI characteristics")

IsReadabilityLine(line) ==
    \/ line = ReadabilityHeader
    \/ StartsWith(line, "  - Flesch Reading Ease: ")
    \/ StartsWith(line, "  - Average Reading Time: ")
    \/ Contains(line, "% of sentences are complex")

IsPlagiarismLine(line) ==
    \/ line = PlagiarismHeader
    \/ StartsWith(line, "  - Overall Score: ")
    \/ StartsWith(line, "  - Found ")

SectionRank(line) ==
    IF IsAiLine(line) THEN 1
    ELSE IF IsReadabilityLine(line) THEN 2
    ELSE IF IsPlagiarismLine(line) THEN 3
    ELSE 0

\* the sentence records of the document, [] when there are none
SentencesOf(doc) ==
    IF Has(doc, "readability") THEN Get(doc["readability"], "sentences", <<>>) ELSE <<>>

\* C1: for every document with the key 'error', format_results returns exactly
\* "Error: " followed by the error value, whatever other sections are present.
C1_ErrorOnlyText ==
    (op = "format_results" /\ Has(data, "error"))
        => (IsOk(result) /\ result.val = "Error: " \o data["error"])

C1_Witness ==
    /\ op = "format_results"
    /\ {"error", "ai", "plagiarism", "readability", "credits"} \subseteq DOMAIN data
    /\ Truthy(data["ai"]) /\ Truthy(data["credits"])
    /\ result = Ok("Error: rate limited")

\* C2: for every document with the key 'error', the HTML report holds only the
\* error message: no document-properties values, no insight line other than the
\* error, no plot section and no credits values.
C2_ErrorOnlyHtml ==
    (op = "generate_html_report" /\ Has(data, "error"))
        => /\ IsOk(result)
           /\ IsOk(result.val.html_content)
           /\ \A i \in DOMAIN result.val.html_content.val :
                LET section == result.val.html_content.val[i]
                IN  /\ section.section # "plot"
                    /\ Has(section, "metrics") => section.metrics = <<>>
                    /\ Has(section, "insights") =>
                         \A j \in DOMAIN section.insights :
                            Contains(section.insights[j], data["error"])

\* C3: for every document with the key 'error', generate_detailed_insights
\* returns only the error text: no AI, Readability or Plagiarism line.
C3_ErrorOnlyInsights ==
    (op = "generate_detailed_insights" /\ Has(data, "error"))
        => /\ IsOk(result)
           /\ \A i \in DOMAIN result.val :
                /\ SectionRank(result.val[i]) = 0
                /\ Contains(result.val[i], data["error"])

\* C4: generate_detailed_insights and the derivation functions complete without
\* raising on a document whose present section lacks a field.
C4_NoRaiseOnMissingField ==
    (op \in {"generate_detailed_insights", "plot_ai_detection_results",
             "plot_readability_metrics", "plot_text_statistics",
             "plot_readability_details", "analyze_ai_blocks"})
        => ~IsRaise(result)

\* C5: for every document without the key 'error', format_results returns a
\* string (it does not raise), with "N/A" for each missing scalar field.
C5_FormatReturnsString ==
    (op = "format_results" /\ ~Has(data, "error")) => IsOk(result)

\* C6: when a section is missing, generate_detailed_insights emits no line of
\* that section, and the derivations of the section return their no-data marker
\* (an empty mapping, an empty table, None), never zero or default values.
C6_MissingSectionNoData ==
    /\ ~Has(data, "ai") =>
         /\ op = "generate_detailed_insights" /\ IsOk(result)
              => \A i \in DOMAIN result.val : ~IsAiLine(result.val[i])
         /\ op = "analyze_ai_blocks" => result = Ok(<<>>)
         /\ op \in {"plot_ai_detection_results", "plot_sentence_heatmap"}
              => result = None
    /\ ~Has(data, "readability") =>
         /\ op = "generate_detailed_insights" /\ IsOk(result)
              => \A i \in DOMAIN result.val : ~IsReadabilityLine(result.val[i])
         /\ op = "analyze_sentence_complexity" => result = Ok(EmptyDict)
         /\ op \in {"plot_readability_metrics", "plot_text_statistics",
                    "plot_sentence_complexity", "plot_readability_details",
                    "plot_readability_timeline"}
              => result = None
    /\ ~Has(data, "plagiarism") =>
         /\ op = "generate_detailed_insights" /\ IsOk(result)
              => \A i \in DOMAIN result.val : ~IsPlagiarismLine(result.val[i])
         /\ op = "plot_plagiarism_metrics" => result = None

C6_Witness ==
    /\ op = "generate_detailed_insights"
    /\ ~Has(data, "readability") /\ ~Has(data, "error")
    /\ GetTruthy(data, "ai") /\ GetTruthy(data, "plagiarism")
    /\ IsOk(result)
    /\ Len(result.val) = 6

\* C7: in the sequence generate_detailed_insights returns, every line belongs to
\* one of the three sections, and all AI lines come before all Readability
\* lines, which come before all Plagiarism lines.
C7_SectionOrder ==
    (op = "generate_detailed_insights" /\ IsOk(result))
        => /\ \A i \in DOMAIN result.val : SectionRank(result.val[i]) \in 1..3
           /\ \A i, j \in DOMAIN result.val :
                i < j => SectionRank(result.val[i]) <= SectionRank(result.val[j])

C7_Witness ==
    /\ op = "generate_detailed_insights"
    /\ IsOk(result)
    /\ \E i, j, k \in DOMAIN result.val :
          /\ i < j /\ j < k
          /\ IsAiLine(result.val[i])
          /\ IsReadabilityLine(result.val[j])
          /\ IsPlagiarismLine(result.val[k])

\* C8: for a document with a plagiarism section, the metric mapping of
\* plot_plagiarism_metrics has exactly 1 + len(matches) entries: "Overall Score"
\* with the score of the section first, then "Match k" (1-based) with the score
\* of the k-th match, in the order of matches.  (A missing score reads as 0; an
\* empty section is no section and gives no figure.)
C8_PlagiarismMetrics ==
    (op = "plot_plagiarism_metrics" /\ Has(data, "plagiarism"))
        => LET plag_data == data["plagiarism"]
               matches == Get(plag_data, "matches", <<>>)
           IN  /\ IsOk(result) <=> Truthy(plag_data)
               /\ IsOk(result) =>
                    /\ Len(result.val.x) = 1 + Len(matches)
                    /\ Len(result.val.y) = 1 + Len(matches)
                    /\ result.val.x[1] = "Overall Score"
                    /\ result.val.y[1] = Get(plag_data, "score", 0)
                    /\ \A k \in 1..Len(matches) :
                         /\ result.val.x[k + 1] = "Match " \o ToString(k)
                         /\ result.val.y[k + 1] = Get(matches[k], "score", 0)
                    /\ \A a, b \in DOMAIN result.val.x :
                         a # b => result.val.x[a] # result.val.x[b]

C8_Witness ==
    /\ op = "plot_plagiarism_metrics"
    /\ Get(data, "plagiarism", EmptyDict) = PlagiarismFull
    /\ IsOk(result)
    /\ result.val.x = <<"Overall Score", "Match 1", "Match 2">>
    /\ result.val.y = <<55, 40, 10>>

RECURSIVE Tally(_, _, _)
\* how many of the records have the flag k set (isList false) or a non-empty
\* list at k (isList true), counted one record after the other
Tally(records, k, isList) ==
    IF Len(records) = 0 THEN 0
    ELSE (IF (IF isList THEN Len(Get(Head(records), k, <<>>)) > 0
              ELSE Get(Head(records), k, FALSE))
          THEN 1 ELSE 0)
         + Tally(Tail(records), k, isList)

\* C9: for a document with a readability section, analyze_sentence_complexity
\* counts the sentence records, those with isHard, those with isVeryHard, those
\* with a non-empty wordsOver13Chars and those with a non-empty
\* wordsOver4Syllables; the two flags are counted independently, and each count
\* is at most total_sentences.
C9_ComplexityCounts ==
    (op = "analyze_sentence_complexity" /\ GetTruthy(data, "readability"))
        => LET sentences == SentencesOf(data)
               analysis == result.val
           IN  /\ IsOk(result)
               /\ analysis.total_sentences = Len(sentences)
               /\ analysis.hard_sentences = Tally(sentences, "isHard", FALSE)
               /\ analysis.very_hard_sentences = Tally(sentences, "isVeryHard", FALSE)
               /\ analysis.sentences_with_long_words
                    = Tally(sentences, "wordsOver13Chars", TRUE)
               /\ analysis.sentences_with_complex_words
                    = Tally(sentences, "wordsOver4Syllables", TRUE)
               /\ \A k \in DOMAIN analysis : analysis[k] <= analysis.total_sentences

C9_Witness ==
    /\ op = "analyze_sentence_complexity"
    /\ IsOk(result)
    /\ result.val.total_sentences = 6
    /\ result.val.hard_sentences = 3
    /\ result.val.very_hard_sentences = 4
    /\ \E i \in DOMAIN SentencesOf(data) : SentencesOf(data)[i] = Both

\* C10 as stated: the timeline has three series with exactly one point per
\* sentence for every sentence count >= 0, an empty timeline for 0 sentences.
C10_TimelineForEveryCount ==
    op = "plot_readability_timeline"
        => /\ IsOk(result)
           /\ Len(result.val.traces) = 3
           /\ \A t \in DOMAIN result.val.traces :
                /\ Len(result.val.traces[t].y) = Len(SentencesOf(data))
                /\ Len(result.val.traces[t].x) = Len(SentencesOf(data))

\* a sentence record that carries the four fields of a SentenceRecord
WellFormed(sentence) ==
    DOMAIN sentence = {"isHard", "isVeryHard", "wordsOver13Chars", "wordsOver4Syllables"}

\* C10 amended: whenever plot_readability_timeline returns a figure, which it
\* does for every list of one or more well-formed sentence records, each of the
\* three series has exactly one point per sentence; with 0 sentences it returns
\* None, no timeline at all, and raises no error.
C10_TimelineLength ==
    op = "plot_readability_timeline"
        => LET sentences == SentencesOf(data)
               n == Len(sentences)
           IN  /\ n = 0 => result = None
               /\ (n > 0 /\ \A i \in 1..n : WellFormed(sentences[i])) => IsOk(result)
               /\ IsOk(result) =>
                    /\ n > 0
                    /\ Len(result.val.traces) = 3
                    /\ \A t \in DOMAIN result.val.traces :
                         /\ Len(result.val.traces[t].y) = n
                         /\ result.val.traces[t].x = Arange(n)

C10_Witness ==
    /\ op = "plot_readability_timeline"
    /\ Len(SentencesOf(data)) = 6
    /\ IsOk(result)
    /\ \A t \in 1..3 : Len(result.val.traces[t].y) = 6

RECURSIVE HighAiBlocks(_)
\* how many of the blocks have result.fake strictly above 0.75, counted one
\* block after the other, a missing result or fake read as 0
HighAiBlocks(blocks) ==
    IF Len(blocks) = 0 THEN 0
    ELSE (IF Get(Get(Head(blocks), "result", EmptyDict), "fake", 0) > 75 THEN 1 ELSE 0)
         + HighAiBlocks(Tail(blocks))

\* C11: for every document with an ai section, the AI part of
\* generate_detailed_insights reports the AI probability confidence.AI * 100 and
\* the number of blocks with result.fake > 0.75, which is 0 when the section has
\* no blocks.
C11_AiInsightLines ==
    (op = "generate_detailed_insights" /\ GetTruthy(data, "ai"))
        => LET ai == data["ai"]
               probability == Get(Get(ai, "confidence", EmptyDict), "AI", 0) * 100
               blocks == Get(ai, "blocks", <<>>)
           IN  /\ IsOk(result)
               /\ \E i \in DOMAIN result.val :
                    result.val[i] = "  - Overall AI Probability: "
                                    \o Format1f(probability) \o "%"
               /\ \E i \in DOMAIN result.val :
                    result.val[i] = "  - " \o ToString(HighAiBlocks(blocks))
                                    \o " text blocks show strong AI characteristics"

\* C12: for every document with a readability section, generate_detailed_insights
\* emits the '% of sentences are complex' line exactly when total_sentences > 0,
\* with the value (hard + very_hard) / total * 100; with total_sentences = 0 the
\* line is omitted and the Flesch Reading Ease and Average Reading Time lines
\* are still emitted.
C12_ComplexLine ==
    (op = "generate_detailed_insights" /\ GetTruthy(data, "readability"))
        => LET sentences == SentencesOf(data)
               total == Len(sentences)
               complex == Tally(sentences, "isHard", FALSE)
                          + Tally(sentences, "isVeryHard", FALSE)
               lines == {result.val[i] : i \in DOMAIN result.val}
               complexLines == {l \in lines : Contains(l, "% of sentences are complex")}
           IN  /\ IsOk(result)
               /\ \E l \in lines : StartsWith(l, "  - Flesch Reading Ease: ")
               /\ \E l \in lines : StartsWith(l, "  - Average Reading Time: ")
               /\ total = 0 => complexLines = {}
               /\ total > 0 =>
                    complexLines = {"  - " \o FormatRatio1f(complex, total)
                                    \o "% of sentences are complex"}

\* the blocks sequence of a document, empty when the document has none
BlocksOf(doc) ==
    IF GetTruthy(doc, "ai") THEN Get(doc["ai"], "blocks", <<>>) ELSE <<>>

\* every block is a TextBlock: it carries a text and a result
AreTextBlocks(blocks) ==
    \A i \in 1..Len(blocks) : Has(blocks[i], "text") /\ Has(blocks[i], "result")

\* C13: analyze_ai_blocks returns one row per TextBlock, in the order of the
\* blocks, with ai_score = result.fake * 100 and human_score = result.real * 100,
\* both within [0, 100] (scores are held in hundredths: 100 is 10000).
C13_BlockRows ==
    (op = "analyze_ai_blocks" /\ AreTextBlocks(BlocksOf(data)))
        => LET blocks == BlocksOf(data)
           IN  /\ IsOk(result)
               /\ Len(result.val) = Len(blocks)
               /\ \A i \in 1..Len(blocks) :
                    /\ result.val[i].text = blocks[i].text
                    /\ result.val[i].ai_score = Get(blocks[i].result, "fake", 0) * 100
                    /\ result.val[i].human_score = Get(blocks[i].result, "real", 0) * 100
                    /\ result.val[i].ai_score \in 0..10000
                    /\ result.val[i].human_score \in 0..10000

\* two different TextBlocks analysed, the first with fake = 0.5 and ai_score 50
C13_Witness ==
    /\ op = "analyze_ai_blocks"
    /\ AreTextBlocks(BlocksOf(data))
    /\ Len(BlocksOf(data)) = 2
    /\ BlocksOf(data)[1].text # BlocksOf(data)[2].text
    /\ BlocksOf(data)[1].result = [fake |-> 50, real |-> 50]
    /\ IsOk(result)
    /\ result.val[1].ai_score = 5000

\* the chart titles in the order AI, Readability, Text Stats, Complexity,
\* Plagiarism, Readability Detail, Timeline, Heatmap
ReportOrder ==
    << "AI Detection Confidence Scores", "Readability Metrics", "Text Statistics",
       "Sentence Complexity Distribution", "Plagiarism Analysis",
       "Detailed Readability Metrics", "Readability Timeline",
       "Sentence Analysis Heatmap" >>

\* the position in ReportOrder of the chart a plot section draws
PlotRank(s) ==
    CHOOSE k \in 1..Len(ReportOrder) : StartsWith(s.plot.div.title, ReportOrder[k])

\* the sections of the HTML report the last call produced
ReportSections == result.val.html_content.val

ReportMade ==
    op = "generate_html_report" /\ IsOk(result) /\ IsOk(result.val.html_content)

\* C14: in every HTML report display_analysis produces, the properties and
\* insights sections come first and the credits section last, every section
\* between them is a plot, the plots follow the order AI, Readability, Text
\* Stats, Complexity, Plagiarism, Readability Detail, Timeline, Heatmap, and there
\* is exactly one plot for each of the eight figures that is not None.
C14_ReportPlotOrder ==
    ReportMade
        => LET html == ReportSections
               n == Len(html)
               plots == {i \in 1..n : html[i].section = "plot"}
           IN  /\ n >= 3
               /\ html[1].section = "Document Properties"
               /\ html[2].section = "Key Insights"
               /\ html[n].section = "Credits Information"
               /\ plots = 3..(n - 1)
               /\ \A i \in plots :
                    \E k \in 1..Len(ReportOrder) :
                        StartsWith(html[i].plot.div.title, ReportOrder[k])
               /\ \A i, j \in plots : i < j => PlotRank(html[i]) < PlotRank(html[j])
               /\ \A k \in 1..Len(ReportOrder) :
                    LET fig == Figures(data)[k]
                        drawn == {i \in plots : PlotRank(html[i]) = k}
                    IN  IF IsNone(fig) THEN drawn = {}
                        ELSE /\ Cardinality(drawn) = 1
                             /\ \A i \in drawn : html[i].plot = to_html(fig.val)

\* a report with some figures None and at least two plots
C14_Witness ==
    /\ ReportMade
    /\ Len(ReportSections) \in 5..10
    /\ \E k \in 1..7 : IsNone(Figures(data)[k]) /\ ~IsNone(Figures(data)[k + 1])

\* the scan call failed: no answer at all, or an answer with a 4xx or 5xx status
ScanFailed(response) ==
    \/ response.kind = "exception"
    \/ response.kind = "response" /\ response.status \notin 200..299

\* the message of the failure, as str(e) gives it
FailureMessage(response) ==
    IF response.kind = "exception" THEN response.message
    ELSE raise_for_status(response).exc

RawValue(sentence, t) ==
    IF t = 1 THEN (IF sentence.isHard THEN 1 ELSE 0) + (IF sentence.isVeryHard THEN 1 ELSE 0)
    ELSE IF t = 2 THEN Len(sentence.wordsOver13Chars)
    ELSE Len(sentence.wordsOver4Syllables)

RECURSIVE RawSum(_, _, _, _)
\* the sum of the raw values of series t over the sentences lo..hi
RawSum(sentences, t, lo, hi) ==
    IF lo > hi THEN 0
    ELSE RawSum(sentences, t, lo, hi - 1) + RawValue(sentences[hi], t)

\* C16: for well-formed sentence records, every point of each of the three
\* series of plot_readability_timeline is the sum of the raw values of the last
\* up to 5 sentences (0-based indices max(0, i-4)..i) divided by min(i+1, 5); the
\* first point is the raw value of the first sentence and no point is undefined.
\* Sequences are 1-based here: position p is index p - 1.
C16_RollingAverage ==
    (/\ op = "plot_readability_timeline"
     /\ Len(SentencesOf(data)) > 0
     /\ \A p \in 1..Len(SentencesOf(data)) : WellFormed(SentencesOf(data)[p]))
        => LET sentences == SentencesOf(data)
           IN  /\ IsOk(result)
               /\ \A t \in 1..3 :
                    LET y == result.val.traces[t].y
                    IN  /\ y[1] = [sum |-> RawValue(sentences[1], t), count |-> 1]
                        /\ \A p \in 1..Len(sentences) :
                             /\ DOMAIN y[p] = {"sum", "count"}
                             /\ y[p].count = (IF p < 5 THEN p ELSE 5)
                             /\ y[p].sum = RawSum(sentences, t, Max(1, p - 4), p)

\* a timeline of six sentences whose last window has dropped a first sentence
\* that counted in the first five points
C16_Witness ==
    /\ op = "plot_readability_timeline"
    /\ IsOk(result)
    /\ Len(SentencesOf(data)) = 6
    /\ SentencesOf(data)[1] = Both
    /\ result.val.traces[1].y[6].count = 5
    /\ result.val.traces[1].y[6].sum = result.val.traces[1].y[5].sum - 2
    /\ result.val.traces[2].y[3].count = 3

\* how many of the sentences have isHard = hard and isVeryHard = very, a missing
\* flag read as False
FlagCount(sentences, hard, very) ==
    Cardinality({i \in 1..Len(sentences) :
                    /\ Get(sentences[i], "isHard", FALSE) = hard
                    /\ Get(sentences[i], "isVeryHard", FALSE) = very})

\* C17: the bar chart of plot_sentence_complexity has Simple = total - hard -
\* very_hard, not clamped; Simple + Hard + Very Hard = total; Simple = (sentences
\* with neither flag) - (sentences with both flags), so Simple is negative exactly
\* when more sentences have both flags than have neither.
C17_SimpleNotClamped ==
    (op = "plot_sentence_complexity" /\ GetTruthy(data, "readability"))
        => LET sentences == SentencesOf(data)
               total == Len(sentences)
               neither == FlagCount(sentences, FALSE, FALSE)
               both == FlagCount(sentences, TRUE, TRUE)
               hard == both + FlagCount(sentences, TRUE, FALSE)
               very == both + FlagCount(sentences, FALSE, TRUE)
           IN  /\ IsOk(result)
               /\ result.val.x = <<"Simple", "Hard", "Very Hard">>
               /\ result.val.y = << total - hard - very, hard, very >>
               /\ result.val.y[1] + result.val.y[2] + result.val.y[3] = total
               /\ result.val.y[1] = neither - both
               /\ result.val.y[1] < 0 <=> both > neither

\* more sentences with both flags than with neither: a negative Simple bar
C17_Witness ==
    /\ op = "plot_sentence_complexity"
    /\ IsOk(result)
    /\ FlagCount(SentencesOf(data), TRUE, TRUE) = 3
    /\ FlagCount(SentencesOf(data), FALSE, FALSE) = 1
    /\ result.val.y[1] = -2

\* the first line each section of format_results contributes, when it
\* contributes one
SectionHeads(doc) ==
    (IF GetTruthy(doc, "ai") /\ Has(doc["ai"], "classification")
     THEN {"\nAI Detection Results:"} ELSE {})
    \cup (IF GetTruthy(doc, "ai") /\ Has(doc["ai"], "confidence")
          THEN {"\nConfidence Scores:"} ELSE {})
    \cup (IF GetTruthy(doc, "plagiarism") THEN {"\nPlagiarism Results:"} ELSE {})
    \cup (IF GetTruthy(doc, "readability") THEN {"\nReadability Metrics:"} ELSE {})
    \cup (IF GetTruthy(doc, "grammarSpelling") /\ Has(doc["grammarSpelling"], "error")
          THEN {"\nGrammar & Spelling: "} ELSE {})
    \cup (IF GetTruthy(doc, "credits") THEN {"\nCredits Information:"} ELSE {})

AllSectionHeads ==
    {"\nAI Detection Results:", "\nConfidence Scores:", "\nPlagiarism Results:",
     "\nReadability Metrics:", "\nGrammar & Spelling: ", "\nCredits Information:"}

\* C18: whenever format_results returns, the string is not empty; it is
\* "Error: ..." when the key 'error' is present; otherwise it is the joined lines
\* of the sections that contribute (their first lines are in it, those of the
\* others are not), and it is "No results available" exactly when no section
\* contributes a line.
C18_NeverEmpty ==
    (op = "format_results" /\ IsOk(result))
        => /\ result.val # ""
           /\ Has(data, "error") => result.val = "Error: " \o data["error"]
           /\ ~Has(data, "error") =>
                /\ result.val = "No results available" <=> SectionHeads(data) = {}
                /\ SectionHeads(data) # {} =>
                     /\ \A h \in SectionHeads(data) : Contains(result.val, h)
                     /\ \A h \in AllSectionHeads \ SectionHeads(data) :
                          ~Contains(result.val, h)
           /\ result.val = "No results available" => ~Has(data, "error")

\* an 'ai' section with neither 'classification' nor 'confidence' and nothing
\* else: the fallback text
C18_Witness ==
    /\ op = "format_results"
    /\ DOMAIN data = {"ai"}
    /\ Truthy(data["ai"])
    /\ result = Ok("No results available")

====
